---- MODULE Spec2Model ----
(***************************************************************************)
(* A model of the Interactive Brokers trading monitor: the shortable-share *)
(* notifier (main.py notifyShortableShares), the reconnect loop            *)
(* (onDisconnected / reConnect), the scheduled health check                *)
(* (checkConnection / trackPortfolio), the portfolio tracker               *)
(* (portfolio_monitor.py PortfolioTracker) and the handlers of the         *)
(* broker's order and fill events (onOrderStatus / onExecDetails /         *)
(* onCommission).                                                          *)
(*                                                                         *)
(* Python dictionaries are functions whose DOMAIN is the set of keys       *)
(* present; a float is a record [nan, v]; the messages a handler sends are *)
(* collected in telegram and email, which hold what the latest handler     *)
(* sent.                                                                   *)
(***************************************************************************)
EXTENDS Integers, Sequences, FiniteSets, TLC

VARIABLES
    \* main.py, module state
    shortableSharesDict,  \* main.py:44  symbol -> last decided shortable shares
    nanCounterDict,       \* main.py:49  symbol -> count of NaN readings
    app,                  \* main.py:351 the GUI object: "None" or "ready"
    mainPc,               \* where main() is: "starting" (line 315), "running" (line 329), "killed"
    \* the broker object (main.py:50)
    connected,            \* broker.connected
    tryToReconnect,       \* broker.tryToReconnect, the retry flag
    reconnecting,         \* broker.reconnecting
    rcStack,              \* the reConnect calls in progress, innermost last, each in one of its waits
    reconnectReturn,      \* what the latest reConnect call returned: "none", "True", "False"
    \* the scheduler and the portfolio tracker (main.py:51, portfolio_monitor.py:63-68)
    timers,               \* the scheduled checkConnection runs: ticks until each is due
    lastPortfolioAge,     \* ticks since portfolioTracker.lastPortfolioTime, at most SpacingTicks
    manualTickers,        \* the list main() read from the GUI (main.py:317)
    tickerDictionary,     \* PortfolioTracker.tickerDictionary, its keys
    instrumentDictionary, \* PortfolioTracker.instrumentDictionary, in insertion order
    portfolioPrices,      \* PortfolioTracker.portfolioPrices, in insertion order
    sheet,                \* the table last written to the spreadsheet
    subscribed,           \* the symbols the DataManager has been asked to stream
    uncaught,             \* whether an exception left the latest handler
    \* the broker's account
    portfolio,            \* the symbols of the open positions, in the order fetchPositions gives
    \* the GUI thread
    watchList,            \* the symbols in the GUI's text box
    checkCallBack,        \* app.checkCallBack (gui.py:20)
    guiPc,                \* "mainloop", or where on_close is (main.py:335-340)
    \* the broker's event stream (main.py:303-306)
    awaitingCommission,   \* the fill whose execution event is delivered and whose
                          \* commission report is still to come: a set of at most one
    \* what handlers hand to the outside
    telegram,             \* messages the latest handler passed to send_to_telegram
    email,                \* messages the latest handler passed to sendFromGmail
    lastEvent,            \* the latest handler run and the input it was given
    \* history
    interrupted,          \* symbol -> a valid sample arrived since its NaN count left 0
    chatCount             \* the chat messages sent so far for the latest fill

notifierVars == <<shortableSharesDict, nanCounterDict, interrupted>>

connVars == <<connected, tryToReconnect, reconnecting, rcStack, reconnectReturn>>

guiVars == <<app, watchList, checkCallBack, guiPc>>

trackerVars == <<tickerDictionary, instrumentDictionary, portfolioPrices, sheet, subscribed>>

monVars == <<timers, lastPortfolioAge, manualTickers, trackerVars, uncaught>>

eventVars == <<awaitingCommission, chatCount>>

vars == <<shortableSharesDict, nanCounterDict, app, mainPc, connected, tryToReconnect,
          reconnecting, rcStack, reconnectReturn, timers, lastPortfolioAge,
          manualTickers, tickerDictionary, instrumentDictionary, portfolioPrices,
          sheet, subscribed, uncaught, portfolio, watchList, checkCallBack, guiPc,
          telegram, lastEvent, interrupted, email, awaitingCommission, chatCount>>

None == "None"

\* The value of lastEvent after a step that ran no handler of the program:
\* time passing, a change at the broker, a click in the GUI.
Elsewhere == [handler |-> "none", arg |-> <<>>]

----------------------------------------------------------------------------
(* Values and dictionaries *)

\* The symbols of the model.
Symbols == {"AAA", "BBB"}

\* A Python float: NaN or a number.
NaN == [nan |-> TRUE, v |-> 0]

Num(n) == [nan |-> FALSE, v |-> n]

isnan(x) == x.nan

\* dict.get(key, default)
Get(d, k, default) == IF k \in DOMAIN d THEN d[k] ELSE default

\* d[key] = value
Put(d, k, value) == [x \in (DOMAIN d) \cup {k} |-> IF x = k THEN value ELSE d[x]]

EmptyDict == [x \in {} |-> 0]

Range(seq) == {seq[i] : i \in DOMAIN seq}

----------------------------------------------------------------------------
(* notifyShortableShares, main.py:146-179 *)

\* main.py:161: samples above this are taken for an overflow sentinel.
ClampLimit == 2147483000

\* main.py:163: the count of NaN readings above which a 0 is synthesized.
NanThreshold == 10

\* main.py:200: the value initshortableSharesDict stores for a watched symbol.
InitialShares == -1

\* The shortable-share samples a ticker can carry: NaN, 0, two plausible
\* counts (the larger one exactly at the clamp limit) and one above the limit.
SampleValues == {0, 5, ClampLimit, ClampLimit + 1}

Samples == {NaN} \cup {Num(n) : n \in SampleValues}

\* A Ticker: its contract (None, or the contract's symbol) and its reading.
Tickers ==
    {[contract |-> c, shortableShares |-> s] : c \in Symbols, s \in Samples}
        \cup {[contract |-> None, shortableShares |-> Num(5)]}

\* main.py:170: the text sent for a symbol and a share count.
ShortableMsg(symbol, shares) ==
    [text |-> "Hay acciones para prestamo", symbol |-> symbol, shares |-> shares]

\* main.py:161
clamp(shortableShares) ==
    IF shortableShares.v > ClampLimit THEN Num(0) ELSE shortableShares

\* Mutation of overThreshold: the feed is given up one reading earlier.
overThresholdOffByOne(count) == count >= NanThreshold

\* main.py:163, the comparison that decides that the feed is lost.
overThreshold(count) == count > NanThreshold

\* main.py:168-169, the condition under which a message is sent. A NaN
\* compares False with everything.
shouldNotify(prevShortableShares, shortableShares) ==
    /\ ~isnan(shortableShares)
    /\ \/ (prevShortableShares # 0 /\ shortableShares.v = 0)
       \/ (prevShortableShares <= 0 /\ shortableShares.v > 0)

\* main.py:155-174, one iteration of the loop for a ticker with a contract.
\* raised: nanCounterDict[symbol] (line 163) raises KeyError when the symbol has
\* no entry, which only a NaN reading (line 159) creates.
notifyTicker(ssd, ncd, ticker) ==
    LET symbol == ticker.contract
        raw == ticker.shortableShares
        ncd1 == IF isnan(raw) THEN Put(ncd, symbol, Get(ncd, symbol, 0) + 1) ELSE ncd
        ss1 == IF isnan(raw) THEN raw ELSE clamp(raw)
    IN  IF symbol \notin DOMAIN ncd1
        THEN [ssd |-> ssd, ncd |-> ncd1, out |-> <<>>, raised |-> TRUE]
        ELSE LET over == overThreshold(ncd1[symbol])
                 ncd2 == IF over THEN Put(ncd1, symbol, 0) ELSE ncd1
                 ss2 == IF over THEN Num(0) ELSE ss1
                 prevShortableShares == Get(ssd, symbol, 0)
             IN  [ssd |-> IF ~isnan(ss2) THEN Put(ssd, symbol, ss2.v) ELSE ssd,
                  ncd |-> ncd2,
                  out |-> IF shouldNotify(prevShortableShares, ss2)
                          THEN <<ShortableMsg(symbol, ss2.v)>> ELSE <<>>,
                  raised |-> FALSE]

\* main.py:151-179, the loop over the ticker set in its iteration order. An
\* exception ends the loop (lines 176-179 print it); what was done stays done.
RECURSIVE notifyLoop(_, _, _, _)
notifyLoop(ssd, ncd, tickers, out) ==
    IF tickers = <<>> THEN [ssd |-> ssd, ncd |-> ncd, out |-> out]
    ELSE IF Head(tickers).contract = None
         THEN notifyLoop(ssd, ncd, Tail(tickers), out)
         ELSE LET r == notifyTicker(ssd, ncd, Head(tickers))
              IN  IF r.raised
                  THEN [ssd |-> r.ssd, ncd |-> r.ncd, out |-> out \o r.out]
                  ELSE notifyLoop(r.ssd, r.ncd, Tail(tickers), out \o r.out)

\* History only: whether a valid sample has split the NaN readings counted for
\* a symbol so far.
RECURSIVE interruptedAfter(_, _, _)
interruptedAfter(intr, ncd, tickers) ==
    IF tickers = <<>> THEN intr
    ELSE IF Head(tickers).contract = None
         THEN interruptedAfter(intr, ncd, Tail(tickers))
         ELSE LET t == Head(tickers)
                  s == t.contract
                  r == notifyTicker(EmptyDict, ncd, t)
                  intr1 == [intr EXCEPT ![s] =
                              IF isnan(t.shortableShares)
                              THEN (IF r.ncd[s] = 0 THEN FALSE ELSE @)
                              ELSE (IF Get(ncd, s, 0) > 0 THEN TRUE ELSE @)]
              IN  IF r.raised THEN intr1
                  ELSE interruptedAfter(intr1, r.ncd, Tail(tickers))

\* The ticker sets delivered by the pending-tickers event, in iteration order.
TickerSets == {<<t>> : t \in Tickers}

notifyShortableShares(tickerSet) ==
    /\ \E r \in {notifyLoop(shortableSharesDict, nanCounterDict, tickerSet, <<>>)} :
           /\ shortableSharesDict' = r.ssd
           /\ nanCounterDict' = r.ncd
           /\ telegram' = r.out
    /\ email' = <<>>
    /\ UNCHANGED eventVars
    /\ interrupted' = interruptedAfter(interrupted, nanCounterDict, tickerSet)
    /\ lastEvent' = [handler |-> "notifyShortableShares", arg |-> tickerSet]
    /\ UNCHANGED <<mainPc, connVars, guiVars, monVars, portfolio>>

NotifyShortableShares == \E tickerSet \in TickerSets : notifyShortableShares(tickerSet)

----------------------------------------------------------------------------
(* The GUI thread, main.py:332-346 and gui.py *)

\* The watch lists the GUI's text box can hold (gui.py:53-58 readSymbols).
WatchLists == {<<>>, <<"AAA">>}

RECURSIVE initLoop(_, _)
initLoop(ssd, symbols) ==
    IF symbols = <<>> THEN ssd
    ELSE initLoop(Put(ssd, Head(symbols), InitialShares), Tail(symbols))

\* main.py:195-200
initshortableSharesDict(symbols) == initLoop(shortableSharesDict, symbols)

\* main.py:342-346: the GUI thread creates the window, whose text box is
\* loaded from symbols.json (gui.py:31-37), and initializes the decided values
\* of the watched symbols.
main_gui(symbols) ==
    /\ app = None
    /\ app' = "ready"
    /\ watchList' = symbols
    /\ shortableSharesDict' = initshortableSharesDict(symbols)
    /\ lastEvent' = [handler |-> "main_gui", arg |-> symbols]
    /\ telegram' = <<>>
    /\ email' = <<>>
    /\ UNCHANGED eventVars
    /\ UNCHANGED <<nanCounterDict, interrupted, mainPc, connVars, guiPc, checkCallBack,
                   monVars, portfolio>>

MainGui == \E symbols \in WatchLists : main_gui(symbols)

\* main.py:336, the first statement of on_close: the retry flag is cleared.
OnCloseClearFlag ==
    /\ app # None /\ guiPc = "mainloop" /\ mainPc # "killed"
    /\ tryToReconnect' = FALSE
    /\ guiPc' = "on_close:337"
    /\ lastEvent' = [handler |-> "on_close", arg |-> "tryToReconnect = False"]
    /\ telegram' = <<>>
    /\ email' = <<>>
    /\ UNCHANGED eventVars
    /\ UNCHANGED <<notifierVars, app, watchList, checkCallBack, mainPc, connected,
                   reconnecting, rcStack, reconnectReturn, monVars, portfolio>>

\* main.py:337, broker.disconnect(): the session is closed and the disconnect
\* handler (lines 54-58) runs with the retry flag cleared, so it only records
\* that the broker is disconnected.
OnCloseDisconnect ==
    /\ guiPc = "on_close:337" /\ mainPc # "killed"
    /\ connected' = FALSE
    /\ guiPc' = "on_close:338"
    /\ lastEvent' = [handler |-> "on_close", arg |-> "disconnect"]
    /\ telegram' = <<>>
    /\ email' = <<>>
    /\ UNCHANGED eventVars
    /\ UNCHANGED <<notifierVars, app, watchList, checkCallBack, mainPc, tryToReconnect,
                   reconnecting, rcStack, reconnectReturn, monVars, portfolio>>

\* main.py:338-340: the window is destroyed and SIGINT ends the main thread,
\* whatever it is doing.
OnCloseKill ==
    /\ guiPc = "on_close:338" /\ mainPc # "killed"
    /\ mainPc' = "killed"
    /\ guiPc' = "closed"
    /\ lastEvent' = [handler |-> "on_close", arg |-> "SIGINT"]
    /\ telegram' = <<>>
    /\ email' = <<>>
    /\ UNCHANGED eventVars
    /\ UNCHANGED <<notifierVars, app, watchList, checkCallBack, connVars, monVars,
                   portfolio>>

----------------------------------------------------------------------------
(* Time. One tick is the shortest delay of the program, the first wait of
   reConnect; every other delay is a multiple of it. *)

\* main.py:65, the first wait of reConnect, in seconds.
ProbeSeconds == 5

TickSeconds == ProbeSeconds

\* main.py:46
RECONNECT_SECONDS == 50

Ticks(seconds) == seconds \div TickSeconds

Max(a, b) == IF a > b THEN a ELSE b

Min(a, b) == IF a < b THEN a ELSE b

----------------------------------------------------------------------------
(* The reconnect loop, main.py:54-86 *)

\* The reConnect calls that may be nested in one another.
MaxNesting == 2

\* What IbkrRequest.connectSyncSimple (main.py:72) can do.
ConnectOutcomes == {"connected", "failed", "raised"}

Top(stack) == stack[Len(stack)]

Pop(stack) == SubSeq(stack, 1, Len(stack) - 1)

ReplaceTop(stack, frame) == Append(Pop(stack), frame)

\* main.py:66, the loop condition.
loopCondition(isConnected, retry) == ~isConnected /\ retry

\* main.py:66-71: the head of an iteration, up to its first wait. The loop
\* goes on with disconnect() and a wait of waitSeconds, or ends and reConnect
\* returns True (line 82).
loopHead(stack, isConnected, retry, waitSeconds) ==
    IF loopCondition(isConnected, retry)
    THEN [rcStack |-> Append(stack, [pc |-> "sleep:71", wait |-> Ticks(waitSeconds),
                                     waitSeconds |-> waitSeconds]),
          reconnectReturn |-> "none"]
    ELSE [rcStack |-> stack, reconnectReturn |-> "True"]

\* main.py:54-58 with 62-71: the disconnect handler. With the retry flag set
\* it calls reConnect, which runs up to its first wait inside the handler.
onDisconnected ==
    /\ connected' = FALSE
    /\ IF tryToReconnect
       THEN LET r == loopHead(rcStack, FALSE, tryToReconnect, ProbeSeconds)
            IN  /\ reconnecting' = TRUE
                /\ rcStack' = r.rcStack
                /\ reconnectReturn' = r.reconnectReturn
       ELSE UNCHANGED <<reconnecting, rcStack, reconnectReturn>>
    /\ UNCHANGED tryToReconnect

\* The market-data subscriptions of a session end with the session.
dropSubscriptions(subs) == {}

\* The broker session drops and the disconnected event is delivered.
ConnectionLost ==
    /\ mainPc = "running" /\ connected
    /\ Len(rcStack) < MaxNesting
    /\ onDisconnected
    /\ subscribed' = dropSubscriptions(subscribed)
    /\ lastEvent' = [handler |-> "onDisconnected", arg |-> "connection lost"]
    /\ telegram' = <<>>
    /\ email' = <<>>
    /\ UNCHANGED eventVars
    /\ UNCHANGED <<notifierVars, guiVars, mainPc, timers, lastPortfolioAge, manualTickers,
                   tickerDictionary, instrumentDictionary, portfolioPrices, sheet,
                   uncaught, portfolio>>

\* main.py:72-74: the wait of line 71 is over; connectSyncSimple is called and
\* the second wait begins. An exception leaves the loop through lines 84-86.
connectAttempt(outcome) ==
    /\ mainPc = "running" /\ rcStack # <<>>
    /\ Top(rcStack).pc = "sleep:71" /\ Top(rcStack).wait = 0
    /\ IF outcome = "raised"
       THEN /\ rcStack' = Pop(rcStack)
            /\ reconnectReturn' = "False"
            /\ UNCHANGED connected
       ELSE /\ rcStack' = ReplaceTop(rcStack,
                              [pc |-> "sleep:74", wait |-> Ticks(RECONNECT_SECONDS),
                               waitSeconds |-> RECONNECT_SECONDS])
            /\ connected' = (connected \/ outcome = "connected")
            /\ UNCHANGED reconnectReturn
    /\ lastEvent' = [handler |-> "reConnect", arg |-> outcome]
    /\ telegram' = <<>>
    /\ email' = <<>>
    /\ UNCHANGED eventVars
    /\ UNCHANGED <<notifierVars, guiVars, mainPc, tryToReconnect, reconnecting, monVars,
                   portfolio>>

ConnectAttempt == \E outcome \in ConnectOutcomes : connectAttempt(outcome)

\* main.py:183-192: logs, and reads the GUI's symbols; nothing is subscribed.
suscribeMarketData == IF app = None THEN <<>> ELSE watchList

\* main.py:75-82: the wait of line 74 is over. Still disconnected: the failure
\* is logged and the loop condition decides. Connected: reconnecting is reset,
\* suscribeMarketData is called, and the loop condition ends the loop.
afterSecondWait ==
    /\ mainPc = "running" /\ rcStack # <<>>
    /\ Top(rcStack).pc = "sleep:74" /\ Top(rcStack).wait = 0
    /\ LET r == loopHead(Pop(rcStack), connected, tryToReconnect, Top(rcStack).waitSeconds)
       IN  /\ rcStack' = r.rcStack
           /\ reconnectReturn' = r.reconnectReturn
    /\ reconnecting' = IF connected THEN FALSE ELSE reconnecting
    /\ lastEvent' = [handler |-> "reConnect",
                     arg |-> IF connected THEN "reconnected" ELSE "still disconnected"]
    /\ telegram' = <<>>
    /\ email' = <<>>
    /\ UNCHANGED eventVars
    /\ UNCHANGED <<notifierVars, guiVars, mainPc, connected, tryToReconnect, monVars,
                   portfolio>>

----------------------------------------------------------------------------
(* The portfolio tracker, portfolio_monitor.py *)

\* The positions the account can hold, by symbol, with the instrument the
\* broker gives for each: an option on BBB, a future that names no underlying
\* and the stock AAA.
PositionInstrument(symbol) ==
    IF symbol = "OPT"
    THEN [symbol |-> "OPT", exchange |-> "CBOE", instrumentType |-> "OPT",
          underlyingSymbol |-> "BBB"]
    ELSE IF symbol = "FUT"
    THEN [symbol |-> "FUT", exchange |-> "CME", instrumentType |-> "FUT",
          underlyingSymbol |-> ""]
    ELSE [symbol |-> symbol, exchange |-> "NYSE", instrumentType |-> "STK",
          underlyingSymbol |-> ""]

Portfolios == {<<>>, <<"OPT">>, <<"AAA">>, <<"OPT", "AAA">>}

\* The portfolios of an account that trades derivatives only.
DerivativePortfolios == {<<>>, <<"OPT">>, <<"FUT">>}

\* Instrument(symbol=..., exchange="SMART"), the other fields at their defaults.
Instrument(symbol) ==
    [symbol |-> symbol, exchange |-> "SMART", instrumentType |-> "STK",
     underlyingSymbol |-> ""]

\* An insertion-ordered dict whose values carry their key in the field symbol.
Keys(d) == {d[i].symbol : i \in DOMAIN d}

\* Mutation of Store: the key is deleted and stored anew, at the end.
StoreAtEnd(d, value) ==
    LET Others(seq) == SelectSeq(seq, LAMBDA row : row.symbol # value.symbol)
    IN  Append(Others(d), value)

\* d[value.symbol] = value: an existing key keeps its place.
Store(d, value) ==
    IF value.symbol \in Keys(d)
    THEN [i \in DOMAIN d |-> IF d[i].symbol = value.symbol THEN value ELSE d[i]]
    ELSE Append(d, value)

RECURSIVE StoreAll(_, _)
StoreAll(d, values) ==
    IF values = <<>> THEN d ELSE StoreAll(Store(d, Head(values)), Tail(values))

\* d[value.symbol] = value only when the key is new.
StoreIfNew(d, value) == IF value.symbol \in Keys(d) THEN d ELSE Append(d, value)

RECURSIVE StoreAllIfNew(_, _)
StoreAllIfNew(d, values) ==
    IF values = <<>> THEN d ELSE StoreAllIfNew(StoreIfNew(d, Head(values)), Tail(values))

RECURSIVE Map1(_, _)
Map1(Op(_), seq) == IF seq = <<>> THEN <<>> ELSE <<Op(Head(seq))>> \o Map1(Op, Tail(seq))

RECURSIVE Filter1(_, _)
Filter1(Keep(_), seq) ==
    IF seq = <<>> THEN <<>>
    ELSE (IF Keep(Head(seq)) THEN <<Head(seq)>> ELSE <<>>) \o Filter1(Keep, Tail(seq))

\* portfolio_monitor.py:170-176: the non-empty underlyings of the positions,
\* each once.
getUnderlyings(positions) ==
    LET NonEmpty(p) == PositionInstrument(p).underlyingSymbol # ""
        Underlying(p) == PositionInstrument(p).underlyingSymbol
    IN  Map1(Underlying, Filter1(NonEmpty, positions))

\* main.py:260-282
instrumentsToTrack(positions, manual) ==
    LET fromPositions == StoreAll(<<>>, Map1(PositionInstrument, positions))
        withUnderlyings == StoreAllIfNew(fromPositions, Map1(Instrument, getUnderlyings(positions)))
    IN  StoreAllIfNew(withUnderlyings, Map1(Instrument, manual))

\* portfolio_monitor.py:126-128
addToInstrumentDictionary(dictionary, listOfInstruments) == StoreAll(dictionary, listOfInstruments)

\* portfolio_monitor.py:158, 162, 212: the row a newly tracked symbol gets.
InitialRow(symbol) ==
    [symbol |-> symbol, markPrice |-> 0, priceType |-> "Mark", time |-> "", Close |-> 0]

\* What fetchPositions can do: give the positions, give nothing, time out,
\* fail otherwise; "no client" is broker.RequestClient being None.
FetchOutcomes == {"ok", "nothing", "timeout", "error", "no client"}

\* The tracker's fields as one record, and a result that raised.
Tracker ==
    [tickerDictionary |-> tickerDictionary, instrumentDictionary |-> instrumentDictionary,
     portfolioPrices |-> portfolioPrices, subscribed |-> subscribed, raised |-> FALSE]

Raised(t) == [t EXCEPT !.raised = TRUE]

\* portfolio_monitor.py:132-168. A timeout is caught (lines 166-168).
create(t, fetch, positions) ==
    IF fetch \in {"no client", "nothing", "timeout"} THEN t
    ELSE IF fetch = "error" THEN Raised(t)
    ELSE LET underlyings == getUnderlyings(positions)
         IN  [tickerDictionary |-> t.tickerDictionary \cup {p : p \in Range(positions)}
                                      \cup Range(underlyings),
              instrumentDictionary |->
                  StoreAll(StoreAll(t.instrumentDictionary, Map1(PositionInstrument, positions)),
                           Map1(Instrument, underlyings)),
              portfolioPrices |->
                  StoreAll(StoreAll(t.portfolioPrices, Map1(InitialRow, positions)),
                           Map1(InitialRow, underlyings)),
              subscribed |-> t.subscribed \cup Range(positions),
              raised |-> FALSE]

\* Mutation of refreshTickerDictionary: the removal that lines 214-221 hold
\* as a comment is carried out.
refreshTickerDictionaryRemoving(t, fetch, positions, instrumentList) ==
    IF fetch = "no client" THEN t
    ELSE IF t.tickerDictionary = {} THEN create(t, fetch, positions)
    ELSE IF fetch = "nothing" THEN t
    ELSE IF fetch \in {"timeout", "error"} THEN Raised(t)
    ELSE IF instrumentList # <<>> THEN Raised(t)
    ELSE LET currentSymbols == positions \o getUnderlyings(positions)
             IsNew(symbol) == symbol \notin t.tickerDictionary
             new == Filter1(IsNew, currentSymbols)
             IsCurrent(row) == row.symbol \in Range(currentSymbols)
         IN  [t EXCEPT !.tickerDictionary = (@ \cup Range(new)) \cap Range(currentSymbols),
                       !.subscribed = @ \cup Range(new),
                       !.portfolioPrices =
                            SelectSeq(StoreAll(@, Map1(InitialRow, new)), IsCurrent)]

\* portfolio_monitor.py:179-212. instrumentList is the list of strings that
\* trackPortfolio passes (main.py:212): line 205 reads .symbol of each, which a
\* string does not have, so a non-empty list raises AttributeError.
refreshTickerDictionary(t, fetch, positions, instrumentList) ==
    IF fetch = "no client" THEN t
    ELSE IF t.tickerDictionary = {} THEN create(t, fetch, positions)
    ELSE IF fetch = "nothing" THEN t
    ELSE IF fetch \in {"timeout", "error"} THEN Raised(t)
    ELSE IF instrumentList # <<>> THEN Raised(t)
    ELSE LET currentSymbols == positions \o getUnderlyings(positions)
             IsNew(symbol) == symbol \notin t.tickerDictionary
             new == Filter1(IsNew, currentSymbols)
         IN  [t EXCEPT !.tickerDictionary = @ \cup Range(new),
                       !.subscribed = @ \cup Range(new),
                       !.portfolioPrices = StoreAll(@, Map1(InitialRow, new))]

\* What DataManager.getBestMarketData can give for an instrument: nothing,
\* prices, prices that are NaN, or an object whose prices are missing, on which
\* math.isnan (portfolio_monitor.py:101) raises TypeError.
Feeds == {"none", "prices", "nan", "broken"}

\* given: whether the result is a market-data object (true in Python) or None.
getBestMarketData(instrument, feed) ==
    IF feed = "none"
    THEN [given |-> FALSE, markPrice |-> NaN, last |-> NaN, closePrice |-> NaN,
          timestamp |-> None]
    ELSE IF feed = "nan"
         THEN [given |-> TRUE, markPrice |-> NaN, last |-> NaN, closePrice |-> NaN,
               timestamp |-> "t"]
         ELSE [given |-> TRUE, markPrice |-> Num(11), last |-> Num(12),
               closePrice |-> Num(10), timestamp |-> "t"]

\* portfolio_monitor.py:101-102
zeroIfNan(x) == IF isnan(x) THEN 0 ELSE x.v

\* portfolio_monitor.py:88-109, the row computed for one instrument.
markRow(instrument, feed) ==
    LET marketData == getBestMarketData(instrument, feed)
    IN  IF ~marketData.given
        THEN [symbol |-> instrument.symbol, markPrice |-> 0, priceType |-> "N/A",
              time |-> "N/A", Close |-> 0]
        ELSE IF instrument.instrumentType = "OPT"
        THEN [symbol |-> instrument.symbol, markPrice |-> zeroIfNan(marketData.markPrice),
              priceType |-> "Mark", time |-> marketData.timestamp,
              Close |-> zeroIfNan(marketData.closePrice)]
        ELSE [symbol |-> instrument.symbol, markPrice |-> zeroIfNan(marketData.last),
              priceType |-> "Last", time |-> marketData.timestamp,
              Close |-> zeroIfNan(marketData.closePrice)]

\* portfolio_monitor.py:85-111: a row for every instrument of the instrument
\* dictionary. An exception ends the loop and is caught (lines 110-111); with
\* a broken feed the first instrument raises it and no row is stored.
updateMarkPrices(prices, instruments, feed) ==
    LET Row(instrument) == markRow(instrument, feed)
    IN  IF feed = "broken" THEN prices ELSE StoreAll(prices, Map1(Row, instruments))

Header == [symbol |-> "Symbol", markPrice |-> "Mark Price", priceType |-> "Price Type",
           time |-> "Time", Close |-> "Close (Mark)"]

\* portfolio_monitor.py:115-123
convertDictToList(prices) == <<Header>> \o prices

\* portfolio_monitor.py:224-236
update(prices, instruments, feed) ==
    convertDictToList(updateMarkPrices(prices, instruments, feed))

----------------------------------------------------------------------------
(* The scheduler, main.py:203-257 *)

\* main.py:203, updateSeconds: the least time between two portfolio runs.
UpdateSeconds == 20

\* main.py:247 and 327: a run is scheduled this many seconds ahead.
ScheduleSeconds == 5

SpacingTicks == Ticks(UpdateSeconds)

\* Mutation of schedule: the run is scheduled twice.
scheduleTwice(queue, seconds) == Append(Append(queue, Ticks(seconds)), Ticks(seconds))

\* main.py:247-248 and 327-328, tradingClient.schedule(nextRunTime,
\* checkConnection, ...): one more run in the queue of scheduled runs.
schedule(queue, seconds) == Append(queue, Ticks(seconds))

\* Mutation of tooSoon: no run is ever too soon.
tooSoonNever(age) == FALSE

\* main.py:209: the run is too soon after the last one.
tooSoon(age) == age < SpacingTicks

\* What writeDataToSheet (portfolio_monitor.py:245) can do.
WriteOutcomes == {"written", "raised"}

\* main.py:203-221. The result: the tracker's fields, the sheet, the age of
\* lastPortfolioTime, and whether an exception left the function.
trackPortfolio(t, age, fetch, positions, feed, write) ==
    IF tooSoon(age) THEN [tracker |-> t, sheet |-> sheet, age |-> age, raised |-> FALSE]
    ELSE LET r == refreshTickerDictionary(t, fetch, positions, manualTickers)
             prices == updateMarkPrices(r.portfolioPrices, r.instrumentDictionary, feed)
             u == [r EXCEPT !.portfolioPrices = prices]
         IN  IF r.raised
             THEN [tracker |-> r, sheet |-> sheet, age |-> age, raised |-> TRUE]
             ELSE IF write = "raised"
             THEN [tracker |-> u, sheet |-> sheet, age |-> age, raised |-> TRUE]
             ELSE [tracker |-> u,
                   sheet |-> update(r.portfolioPrices, r.instrumentDictionary, feed),
                   age |-> 0,
                   raised |-> FALSE]

\* main.py:227-257, the scheduled health check. The next run is scheduled
\* (line 248) after trackPortfolio returns; an exception that leaves
\* trackPortfolio leaves checkConnection before that line.
checkConnection(fetch, feed, write) ==
    /\ mainPc = "running"
    /\ \E i \in DOMAIN timers : timers[i] = 0
    /\ \E r \in {trackPortfolio(Tracker, lastPortfolioAge, fetch, portfolio, feed, write)} :
       LET due == CHOOSE i \in DOMAIN timers : timers[i] = 0
           rest == SubSeq(timers, 1, due - 1) \o SubSeq(timers, due + 1, Len(timers))
       IN  /\ tickerDictionary' = r.tracker.tickerDictionary
           /\ instrumentDictionary' = r.tracker.instrumentDictionary
           /\ portfolioPrices' = r.tracker.portfolioPrices
           /\ subscribed' = r.tracker.subscribed
           /\ sheet' = r.sheet
           /\ lastPortfolioAge' = r.age
           /\ uncaught' = r.raised
           /\ timers' = IF r.raised THEN rest ELSE schedule(rest, ScheduleSeconds)
           /\ checkCallBack' = IF r.raised \/ app = None THEN checkCallBack ELSE FALSE
    /\ lastEvent' = [handler |-> "checkConnection", arg |-> lastPortfolioAge]
    /\ telegram' = <<>>
    /\ email' = <<>>
    /\ UNCHANGED eventVars
    /\ UNCHANGED <<notifierVars, connVars, mainPc, manualTickers, portfolio, app,
                   watchList, guiPc>>

\* The broker, the data feed and the sheet are consulted only on a run that
\* reaches them (main.py:207-213).
CheckConnection ==
    IF tooSoon(lastPortfolioAge)
    THEN checkConnection("ok", "none", "written")
    ELSE \E fetch \in FetchOutcomes, feed \in Feeds, write \in WriteOutcomes :
            checkConnection(fetch, feed, write)

\* gui.py:50-51, the "Check Call Back" button.
CheckCallBackButton ==
    /\ app # None /\ guiPc = "mainloop" /\ mainPc # "killed"
    /\ ~checkCallBack
    /\ checkCallBack' = TRUE
    /\ lastEvent' = Elsewhere
    /\ telegram' = <<>>
    /\ email' = <<>>
    /\ UNCHANGED eventVars
    /\ UNCHANGED <<notifierVars, connVars, monVars, mainPc, portfolio, app, watchList, guiPc>>

\* The account's positions change at the broker.
PortfolioChange ==
    /\ mainPc # "killed"
    /\ \E p \in Portfolios \ {portfolio} : portfolio' = p
    /\ lastEvent' = Elsewhere
    /\ telegram' = <<>>
    /\ email' = <<>>
    /\ UNCHANGED eventVars
    /\ UNCHANGED <<notifierVars, connVars, monVars, mainPc, guiVars>>

\* The same, for an account that trades derivatives only.
DerivativeChange ==
    /\ mainPc # "killed"
    /\ \E p \in DerivativePortfolios \ {portfolio} : portfolio' = p
    /\ lastEvent' = Elsewhere
    /\ telegram' = <<>>
    /\ email' = <<>>
    /\ UNCHANGED eventVars
    /\ UNCHANGED <<notifierVars, connVars, monVars, mainPc, guiVars>>

\* main.py:315-329, the rest of main(): the GUI's symbols are read, the
\* instruments to track are stored and streamed, the first health check is
\* scheduled and the event loop starts.
main ==
    /\ mainPc = "starting"
    /\ mainPc' = "running"
    /\ manualTickers' = suscribeMarketData
    /\ LET instrumentList == instrumentsToTrack(portfolio, suscribeMarketData)
       IN  /\ instrumentDictionary' = addToInstrumentDictionary(instrumentDictionary, instrumentList)
           /\ subscribed' = Keys(instrumentList)
    /\ timers' = schedule(timers, ScheduleSeconds)
    /\ lastEvent' = [handler |-> "main", arg |-> suscribeMarketData]
    /\ telegram' = <<>>
    /\ email' = <<>>
    /\ UNCHANGED eventVars
    /\ UNCHANGED <<notifierVars, guiVars, connVars, lastPortfolioAge, tickerDictionary,
                   portfolioPrices, sheet, uncaught, portfolio>>

\* Five seconds pass. No time passes while a wait of the innermost reConnect
\* call is over and the call has not gone on, while a scheduled run is due,
\* or while on_close is running.
Tick ==
    /\ mainPc = "running"
    /\ guiPc \in {"mainloop", "closed"}
    /\ rcStack # <<>> => Top(rcStack).wait > 0
    /\ \A i \in DOMAIN timers : timers[i] > 0
    /\ rcStack' = [i \in DOMAIN rcStack |->
                     [rcStack[i] EXCEPT !.wait = Max(0, @ - 1)]]
    /\ timers' = [i \in DOMAIN timers |-> timers[i] - 1]
    /\ lastPortfolioAge' = Min(lastPortfolioAge + 1, SpacingTicks)
    /\ lastEvent' = Elsewhere
    /\ telegram' = <<>>
    /\ email' = <<>>
    /\ UNCHANGED eventVars
    /\ UNCHANGED <<notifierVars, guiVars, mainPc, connected, tryToReconnect,
                   reconnecting, reconnectReturn, manualTickers, trackerVars,
                   uncaught, portfolio>>

----------------------------------------------------------------------------
(* The handlers of the broker's order and fill events, main.py:100-143 *)

\* The statuses an order-status event can carry, "Submitted" among them.
OrderStatuses == {"PreSubmitted", "Submitted", "Filled", "Cancelled"}

\* contract.secType
SecTypes == {"STK", "OPT", "FUT"}

\* The executions the broker reports, by execution id.
ExecIds == {"e1", "e2"}

\* Seconds between fill.time and the delivery of the fill's events: a fresh
\* fill, one exactly and one just over the threshold old, and one that a
\* restart of TWS delivers again.
FillAges == {30, 120, 121, 300}

\* An IbkrFill: its execution, its time (as an age) and the commission its
\* own commissionReport carries when the execution event is delivered.
Fills ==
    {[execId |-> e, age |-> a,
      execution |-> [side |-> "BOT", shares |-> 10, price |-> 12],
      commission |-> 0] : e \in ExecIds, a \in FillAges}

\* An IbkrTrade: its order status, contract, order and fills.
Trade(status, secType, fills) ==
    [status |-> status, secType |-> secType, localSymbol |-> "AAA", action |-> "BUY",
     totalQuantity |-> 10, lmtPrice |-> 12, fills |-> fills]

\* The trades of order-status events, and the trade of a fill's events.
OrderTrades == {Trade(s, t, <<>>) : s \in OrderStatuses, t \in SecTypes}

FillTrade(fill) == Trade("Filled", "STK", <<fill>>)

\* The commissions a CommissionReport can carry.
Commissions == {1}

\* main.py:133
timeTresholdMinutes == 2

\* Mutation of isSubmitted: a status that contains "Submitted" passes.
isSubmittedLoosely(status) == status \in {"Submitted", "PreSubmitted"}

\* main.py:101
isSubmitted(status) == status = "Submitted"

\* main.py:104-105
orderMessage(trade) ==
    [text |-> "Sent order to", action |-> trade.action, quantity |-> trade.totalQuantity,
     localSymbol |-> trade.localSymbol,
     instrumentType |-> IF trade.secType \in {"FUT", "OPT"} THEN "contracts" ELSE "shares",
     price |-> trade.lmtPrice]

\* main.py:110-113: the message is built from the latest fill of the trade.
buildTradeMessage(trade, commission) ==
    LET execution == trade.fills[Len(trade.fills)].execution
    IN  [text |-> "shares on", side |-> execution.side, shares |-> execution.shares,
         localSymbol |-> trade.localSymbol, price |-> execution.price,
         commission |-> commission]

\* main.py:134: the fill is older than the threshold.
tooOld(age) == age > timeTresholdMinutes * 60

\* Mutation of send: the message is handed to the channel twice.
sendTwice(msg) == <<msg, msg>>

\* One call of telegram.send_to_telegram or of sendFromGmail (main.py:106,
\* 119, 140, 141): one message handed to the channel.
send(msg) == <<msg>>

eventUnchanged ==
    UNCHANGED <<notifierVars, connVars, guiVars, monVars, mainPc, portfolio>>

\* main.py:100-107
onOrderStatus(trade) ==
    /\ mainPc # "killed"
    /\ telegram' = IF isSubmitted(trade.status) THEN send(orderMessage(trade)) ELSE <<>>
    /\ email' = <<>>
    /\ lastEvent' = [handler |-> "onOrderStatus", arg |-> trade]
    /\ UNCHANGED eventVars
    /\ eventUnchanged

OnOrderStatus == \E trade \in OrderTrades : onOrderStatus(trade)

\* main.py:117-123. The broker delivers the execution event of a fill first
\* and the commission report of the same fill after it.
onExecDetails(trade, fill) ==
    /\ mainPc # "killed"
    /\ awaitingCommission = {}
    /\ telegram' = send(buildTradeMessage(trade, fill.commission))
    /\ email' = <<>>
    /\ awaitingCommission' = {fill}
    /\ chatCount' = Len(telegram')
    /\ lastEvent' = [handler |-> "onExecDetails", arg |-> fill]
    /\ eventUnchanged

OnExecDetails == \E fill \in Fills : onExecDetails(FillTrade(fill), fill)

\* main.py:130-143
onCommission(trade, fill, report) ==
    /\ mainPc # "killed"
    /\ awaitingCommission = {fill}
    /\ LET msg == buildTradeMessage(trade, report)
       IN  IF tooOld(fill.age)
           THEN telegram' = <<>> /\ email' = <<>>
           ELSE telegram' = send(msg) /\ email' = send(msg)
    /\ awaitingCommission' = {}
    /\ chatCount' = chatCount + Len(telegram')
    /\ lastEvent' = [handler |-> "onCommission", arg |-> fill]
    /\ eventUnchanged

OnCommission ==
    \E fill \in Fills, report \in Commissions :
        onCommission(FillTrade(fill), fill, report)

----------------------------------------------------------------------------
(* The program: main() has connected the broker, registered the handlers
   and started the GUI thread (main.py:296-313). *)
Init ==
    /\ shortableSharesDict = EmptyDict
    /\ nanCounterDict = EmptyDict
    /\ app = None
    /\ mainPc = "starting"
    /\ connected = TRUE
    /\ tryToReconnect = TRUE
    /\ reconnecting = FALSE
    /\ rcStack = <<>>
    /\ reconnectReturn = "none"
    /\ timers = <<>>
    /\ lastPortfolioAge = SpacingTicks
    /\ manualTickers = <<>>
    /\ tickerDictionary = {}
    /\ instrumentDictionary = <<>>
    /\ portfolioPrices = <<>>
    /\ sheet = <<>>
    /\ subscribed = {}
    /\ uncaught = FALSE
    /\ portfolio = <<>>
    /\ watchList = <<>>
    /\ checkCallBack = FALSE
    /\ guiPc = "mainloop"
    /\ telegram = <<>>
    /\ email = <<>>
    /\ awaitingCommission = {}
    /\ chatCount = 0
    /\ lastEvent = Elsewhere
    /\ interrupted = [s \in Symbols |-> FALSE]

\* The shortable-share notifier with the GUI thread's initialization.
NextNotifier ==
    \/ MainGui
    \/ NotifyShortableShares

SpecNotifier == Init /\ [][NextNotifier]_vars

\* The connection supervisor with the GUI thread and a health check that
\* meets no failure.
NextConn ==
    \/ MainGui
    \/ main
    \/ ConnectionLost
    \/ ConnectAttempt
    \/ afterSecondWait
    \/ checkConnection("ok", "none", "written")
    \/ CheckCallBackButton
    \/ OnCloseClearFlag
    \/ OnCloseDisconnect
    \/ OnCloseKill
    \/ Tick

SpecConn == Init /\ [][NextConn]_vars

\* The scheduler and the portfolio tracker with the GUI thread.
NextMonitor ==
    \/ MainGui
    \/ main
    \/ CheckConnection
    \/ PortfolioChange
    \/ Tick

SpecMonitor == Init /\ [][NextMonitor]_vars

\* The scheduler and the portfolio tracker for an account that trades
\* derivatives only.
NextSnapshot ==
    \/ MainGui
    \/ main
    \/ CheckConnection
    \/ DerivativeChange
    \/ Tick

SpecSnapshot == Init /\ [][NextSnapshot]_vars

\* The handlers of the broker's order and fill events.
NextEvents ==
    \/ OnOrderStatus
    \/ OnExecDetails
    \/ OnCommission

SpecEvents == Init /\ [][NextEvents]_vars

\* The whole program.
Next ==
    \/ MainGui
    \/ OnOrderStatus
    \/ OnExecDetails
    \/ OnCommission
    \/ main
    \/ NotifyShortableShares
    \/ ConnectionLost
    \/ ConnectAttempt
    \/ afterSecondWait
    \/ CheckConnection
    \/ CheckCallBackButton
    \/ PortfolioChange
    \/ DerivativeChange
    \/ OnCloseClearFlag
    \/ OnCloseDisconnect
    \/ OnCloseKill
    \/ Tick

Spec == Init /\ [][Next]_vars

----------------------------------------------------------------------------
(* Properties of the shortable-share notifier, checked under SpecNotifier *)

\* The step is notifyShortableShares run on the one ticker (symbol, sample).
SampleStep(symbol, sample) ==
    lastEvent' = [handler |-> "notifyShortableShares",
                  arg |-> <<[contract |-> symbol, shortableShares |-> sample]>>]

ValidSamples == Samples \ {NaN}

\* The decided value a sample is compared with: the stored one, or 0.
Decided(symbol) == Get(shortableSharesDict, symbol, 0)

\* The Emerged and Depleted messages of a symbol among the messages sent.
EmergedIn(out, symbol) == {i \in DOMAIN out : out[i].symbol = symbol /\ out[i].shares > 0}

DepletedIn(out, symbol) == {i \in DOMAIN out : out[i].symbol = symbol /\ out[i].shares = 0}

\* C1: for every valid sample, an Emerged message is sent iff the decided
\* value before it is <= 0 and the sample, after clamping, is > 0; then exactly
\* one message is sent and the sample becomes the decided value, so that a
\* following sample > 0 sends nothing.
C1_EmergedIffTransition ==
    [][\A s \in Symbols, x \in ValidSamples :
         SampleStep(s, x) =>
            LET rising == Decided(s) <= 0 /\ x.v > 0 /\ x.v <= ClampLimit
            IN  /\ (EmergedIn(telegram', s) # {}) <=> rising
                /\ rising => /\ Len(telegram') = 1
                             /\ s \in DOMAIN shortableSharesDict'
                             /\ shortableSharesDict'[s] = x.v]_vars

\* C2: the first sample ever seen for a symbol, when valid and > 0, sends an
\* Emerged message and is stored as the decided value.
C2_FirstSampleEmerges ==
    [][\A s \in Symbols, x \in ValidSamples :
         (/\ SampleStep(s, x)
          /\ s \notin DOMAIN shortableSharesDict
          /\ s \notin DOMAIN nanCounterDict
          /\ x.v > 0 /\ x.v <= ClampLimit)
         => /\ EmergedIn(telegram', s) # {}
            /\ s \in DOMAIN shortableSharesDict'
            /\ shortableSharesDict'[s] = x.v]_vars

\* C3: a NaN sample met with a count below the threshold adds exactly 1 to the
\* count, sends nothing and leaves every decided value as it was; the NaN
\* sample met with a count equal to the threshold (the 11th from 0) sets the
\* decided value to 0 and the count to 0.
C3_NanCounting ==
    [][\A s \in Symbols :
         SampleStep(s, NaN) =>
            LET count == Get(nanCounterDict, s, 0)
            IN  /\ s \in DOMAIN nanCounterDict'
                /\ IF count < NanThreshold
                   THEN /\ nanCounterDict'[s] = count + 1
                        /\ telegram' = <<>>
                        /\ shortableSharesDict' = shortableSharesDict
                   ELSE /\ nanCounterDict'[s] = 0
                        /\ s \in DOMAIN shortableSharesDict'
                        /\ shortableSharesDict'[s] = 0]_vars

\* C3, witness: the NaN sample that exceeded the threshold has just been
\* processed for AAA, whose decided value was 5 and is now 0.
C3_Witness ==
    /\ lastEvent = [handler |-> "notifyShortableShares",
                    arg |-> <<[contract |-> "AAA", shortableShares |-> NaN]>>]
    /\ "AAA" \in DOMAIN nanCounterDict /\ nanCounterDict["AAA"] = 0
    /\ "AAA" \in DOMAIN shortableSharesDict /\ shortableSharesDict["AAA"] = 0
    /\ DepletedIn(telegram, "AAA") # {}

\* C4: the count is of consecutive NaN readings: a NaN sample that follows a
\* valid sample of the symbol received since the count left 0 never forces the
\* decided value to 0 and never sends a Depleted message.
C4_ConsecutiveOnly ==
    [][\A s \in Symbols :
         (SampleStep(s, NaN) /\ interrupted[s])
         => /\ shortableSharesDict' = shortableSharesDict
            /\ DepletedIn(telegram', s) = {}]_vars

\* C5: a valid sample above the clamp limit counts as 0: it sends a Depleted
\* message after a decided value > 0, never an Emerged message, and the stored
\* decided value becomes 0.
C5_OversizedIsZero ==
    [][\A s \in Symbols, x \in ValidSamples :
         (SampleStep(s, x) /\ x.v > ClampLimit)
         => /\ Decided(s) > 0 => DepletedIn(telegram', s) # {}
            /\ EmergedIn(telegram', s) = {}
            /\ s \in DOMAIN shortableSharesDict'
            /\ shortableSharesDict'[s] = 0]_vars

----------------------------------------------------------------------------
(* Claims about the reconnect loop, under SpecConn *)

\* C6: while the retry flag is set and the connection is down the retrying
\* never ends: the last running reConnect call returns only when the broker
\* is connected or the retry flag is cleared, also after an attempt that
\* raised an error.
C6_RetryUntilConnected ==
    [][(rcStack # <<>> /\ rcStack' = <<>>) => (connected' \/ ~tryToReconnect')]_vars

\* C7: once the retry flag is cleared, the reconnect loop makes no further
\* connect attempt.
C7_NoAttemptAfterClear ==
    [][~tryToReconnect =>
          ~(lastEvent'.handler = "reConnect" /\ lastEvent'.arg \in ConnectOutcomes)]_vars

\* C8: after every successful reconnect, every instrument of the TrackedSet
\* has a market-data subscription.
C8_ResubscribedAfterReconnect ==
    [][(lastEvent'.handler = "reConnect" /\ lastEvent'.arg = "reconnected")
          => Keys(instrumentDictionary') \subseteq subscribed']_vars

\* The handlers main() registers on the broker's events (main.py:303-306).
CallbackHandlers == {"onDisconnected", "onOrderStatus", "onExecDetails", "onCommission"}

\* C15: nothing that blocks runs inside a broker event callback: the step of
\* a callback begins no wait of a reconnect loop, writes no sheet and sends no
\* chat message and no email.
C15_NoBlockingInCallback ==
    [][lastEvent'.handler \in CallbackHandlers
          => /\ rcStack' = rcStack
             /\ sheet' = sheet
             /\ telegram' = <<>>
             /\ email' = <<>>]_vars

----------------------------------------------------------------------------
(* Claims about the scheduler, under SpecMonitor *)

\* C9: an error raised inside a health check is caught and the next health
\* check is still scheduled: while the main thread runs, a health check that
\* an exception has left is followed by a scheduled one.
C9_FailingTickReschedules ==
    (mainPc = "running" /\ uncaught) => timers # <<>>

\* C10: a health check that runs less than the minimum spacing after the last
\* successful portfolio run refreshes nothing, recomputes no price, writes no
\* sheet, leaves the time of the last run alone, and schedules the next health
\* check 5 seconds ahead in place of the one that has just run.
C10_TooSoonIsNoOp ==
    [][(lastEvent'.handler = "checkConnection" /\ lastEvent'.arg < Ticks(UpdateSeconds))
          => /\ UNCHANGED <<trackerVars, lastPortfolioAge>>
             /\ ~uncaught'
             /\ Len(timers') = Len(timers)
             /\ timers'[Len(timers')] = Ticks(ScheduleSeconds)]_vars

\* C10, witness: a health check has just run 5 to 15 seconds after a portfolio
\* run that wrote the sheet, and the next health check is scheduled.
C10_Witness ==
    /\ lastEvent.handler = "checkConnection"
    /\ lastEvent.arg < Ticks(UpdateSeconds)
    /\ lastPortfolioAge = lastEvent.arg
    /\ Len(sheet) > 1
    /\ timers = <<Ticks(ScheduleSeconds)>>

----------------------------------------------------------------------------
(* Claims about the portfolio tracker, under SpecMonitor *)

\* A health check that is not too soon, to which the broker answers fetch and
\* whose sheet is written: a completed scheduler run.
CompletedRun(fetch) ==
    /\ ~tooSoon(lastPortfolioAge)
    /\ \E feed \in Feeds : checkConnection(fetch, feed, "written")
    /\ ~uncaught'

\* The symbols the TrackedSet has to hold: the positions of the portfolio,
\* their non-empty underlyings and the manual symbols.
RequiredSymbols ==
    Range(portfolio) \cup Range(getUnderlyings(portfolio)) \cup Range(manualTickers)

\* The TrackedSet: the symbols of the symbol-to-Instrument mapping.
TrackedSet == Keys(instrumentDictionary)

\* C11: after every completed scheduler run to which the broker gave the
\* positions, the TrackedSet contains every symbol of the current portfolio,
\* every non-empty underlying of a position and every manual symbol.
C11_TrackedSetComplete ==
    [][CompletedRun("ok") => RequiredSymbols \subseteq TrackedSet']_vars

\* C12: after every scheduler run that writes the sheet, with a data feed on
\* which the price update does not fail, the table is the header row followed
\* by exactly one row for each symbol of the TrackedSet and no other row.
C12_SheetMatchesTrackedSet ==
    [][(/\ ~tooSoon(lastPortfolioAge)
        /\ \E fetch \in FetchOutcomes, feed \in Feeds \ {"broken"} :
               checkConnection(fetch, feed, "written")
        /\ ~uncaught')
          => /\ sheet' # <<>>
             /\ sheet'[1] = Header
             /\ Len(sheet') = 1 + Cardinality(TrackedSet')
             /\ {sheet'[i].symbol : i \in 2..Len(sheet')} = TrackedSet']_vars

\* C13: an instrument stored in the instrument set stays as it was first
\* stored: no step replaces the entry of a symbol that is already there.
C13_FirstSeenWins ==
    [][\A i \in DOMAIN instrumentDictionary :
          \E j \in DOMAIN instrumentDictionary' :
             instrumentDictionary'[j] = instrumentDictionary[i]]_vars

----------------------------------------------------------------------------
(* Claims about the order and fill events, under SpecEvents *)

FillHandlers == {"onExecDetails", "onCommission"}

\* C14: an execution event or a commission-report event of a fill more than
\* 2 minutes old sends nothing to any channel; one of a fill at most 2 minutes
\* old is relayed.
C14_OldFillsNotRelayed ==
    [][lastEvent'.handler \in FillHandlers
          => IF lastEvent'.arg.age > 2 * 60
             THEN telegram' = <<>> /\ email' = <<>>
             ELSE telegram' # <<>>]_vars

RelayHandlers == {"onOrderStatus", "onExecDetails", "onCommission"}

\* C17: the handling of one order-status, execution or commission event
\* sends at most one message to the chat channel and at most one to the email
\* channel.
C17_AtMostOncePerChannel ==
    [][lastEvent'.handler \in RelayHandlers
          => Len(telegram') <= 1 /\ Len(email') <= 1]_vars

\* C17, witness: the commission report of a fresh fill has just been relayed,
\* once to the chat and once by email.
C17_Witness ==
    /\ lastEvent.handler = "onCommission"
    /\ lastEvent.arg.age <= 2 * 60
    /\ Len(telegram) = 1
    /\ Len(email) = 1

\* C18: an order-status event sends a notification iff its status is exactly
\* "Submitted"; with any other status the handler sends nothing and changes
\* no state.
C18_OnlySubmittedRelayed ==
    [][lastEvent'.handler = "onOrderStatus"
          => /\ (telegram' # <<>>) <=> (lastEvent'.arg.status = "Submitted")
             /\ email' = <<>>
             /\ lastEvent'.arg.status # "Submitted"
                   => UNCHANGED <<notifierVars, connVars, guiVars, monVars, mainPc,
                                  portfolio, eventVars>>]_vars

\* C18, witness: an order-status event with status "Submitted" has just been
\* relayed to the chat.
C18_Witness ==
    /\ lastEvent.handler = "onOrderStatus"
    /\ lastEvent.arg.status = "Submitted"
    /\ Len(telegram) = 1
    /\ telegram[1].text = "Sent order to"

----------------------------------------------------------------------------
(* More claims about the portfolio tracker, under SpecMonitor *)

\* The place of a symbol's row in a table that has one.
Place(table, symbol) == CHOOSE i \in DOMAIN table : table[i].symbol = symbol

\* The rows of symbols present in both tables are in the same relative order.
OrderKept(old, new) ==
    \A i, j \in DOMAIN old :
        (i < j /\ old[i].symbol \in Keys(new) /\ old[j].symbol \in Keys(new))
            => Place(new, old[i].symbol) < Place(new, old[j].symbol)

\* A row of new for a symbol that old has not comes after every row of a
\* symbol that old has.
NewRowsLast(old, new) ==
    \A k \in DOMAIN new :
        new[k].symbol \notin Keys(old)
            => \A i \in DOMAIN new : new[i].symbol \in Keys(old) => i < k

\* C16: from one snapshot of the price table to the next, and from one
\* written sheet to the next, the rows of symbols present in both keep their
\* relative order and the rows of newly tracked symbols come after all rows
\* that were already there.
C16_StableOrder ==
    [][/\ OrderKept(portfolioPrices, portfolioPrices')
       /\ NewRowsLast(portfolioPrices, portfolioPrices')
       /\ OrderKept(sheet, sheet')
       /\ NewRowsLast(sheet, sheet')]_vars

\* C16, witness: a sheet has just been written in which AAA, tracked first and
\* priced since, is followed by the rows of OPT and of its underlying BBB,
\* which were tracked later.
C16_Witness ==
    /\ lastEvent.handler = "checkConnection"
    /\ lastPortfolioAge = 0
    /\ Len(sheet) = 4
    /\ sheet[2].symbol = "AAA" /\ sheet[2].priceType = "Last"
    /\ sheet[3].symbol = "OPT"
    /\ sheet[4].symbol = "BBB"

NewValue(symbol, sample) ==
    IF ~isnan(sample) THEN clamp(sample)
    ELSE IF Get(nanCounterDict, symbol, 0) >= NanThreshold THEN Num(0)
    ELSE NaN

\* C20: for every processed sample, a Depleted message is sent iff the decided
\* value before it is not 0 and the new value is 0 (a valid 0, a clamped
\* oversized sample or the synthesized 0); a sample that matches neither the
\* Emerged rule nor the Depleted rule sends nothing.
C20_DepletedIffTransition ==
    [][\A s \in Symbols, x \in Samples :
         SampleStep(s, x) =>
            LET new == NewValue(s, x)
                falling == ~isnan(new) /\ Decided(s) # 0 /\ new.v = 0
                rising == ~isnan(new) /\ Decided(s) <= 0 /\ new.v > 0
            IN  /\ (DepletedIn(telegram', s) # {}) <=> falling
                /\ (~falling /\ ~rising) => telegram' = <<>>]_vars

\* C24: one fill produces at most one chat message in total, over its
\* execution event and its commission-report event together.
C24_OneChatPerFill == chatCount <= 1

----------------------------------------------------------------------------
(* Claims about the snapshot rows, under SpecSnapshot *)

\* An option or a future.
Derivative(instrument) == instrument.instrumentType \in {"OPT", "FUT"}

\* The row of a symbol in a price table.
RowOf(prices, symbol) == prices[CHOOSE i \in DOMAIN prices : prices[i].symbol = symbol]

\* C21: after every scheduler run that writes the sheet with a data feed on
\* which the price update does not fail, the row of every tracked instrument
\* carries the unavailable marker when the feed gave nothing for it, the mark
\* price labelled Mark when the instrument is an option or a future, and the
\* last-trade price labelled Last otherwise.
C21_BestValueByKind ==
    [][\A feed \in Feeds \ {"broken"} :
         (/\ ~tooSoon(lastPortfolioAge)
          /\ \E fetch \in FetchOutcomes : checkConnection(fetch, feed, "written")
          /\ ~uncaught')
         => \A i \in DOMAIN instrumentDictionary' :
              LET instrument == instrumentDictionary'[i]
                  marketData == getBestMarketData(instrument, feed)
              IN  /\ instrument.symbol \in Keys(portfolioPrices')
                  /\ LET row == RowOf(portfolioPrices', instrument.symbol)
                     IN  IF ~marketData.given
                         THEN row.priceType = "N/A"
                         ELSE IF Derivative(instrument)
                         THEN /\ row.priceType = "Mark"
                              /\ row.markPrice = zeroIfNan(marketData.markPrice)
                         ELSE /\ row.priceType = "Last"
                              /\ row.markPrice = zeroIfNan(marketData.last)]_vars

----------------------------------------------------------------------------
(* More claims about the reconnect loop, under SpecConn *)

\* C22: at most one reconnect loop is active at any time: a disconnect
\* delivered during a wait of a running loop starts no second loop inside it.
C22_OneReconnectLoop == Len(rcStack) <= 1

----------------------------------------------------------------------------
(* More claims about the scheduler, under SpecMonitor *)

\* C23: at every moment at most one future run of the health check is
\* scheduled, and every health check that returns, by either return
\* statement, leaves exactly one, 5 seconds ahead: the chain of scheduled runs
\* never forks.
C23_OneScheduledRun ==
    [][/\ Len(timers') <= 1
       /\ (lastEvent'.handler = "checkConnection" /\ ~uncaught')
             => timers' = <<Ticks(ScheduleSeconds)>>]_vars

\* C23, witness: a health check that ran the portfolio has just returned and
\* its one successor is scheduled.
C23_Witness ==
    /\ lastEvent.handler = "checkConnection"
    /\ ~uncaught
    /\ lastPortfolioAge = 0
    /\ sheet # <<>>
    /\ timers = <<Ticks(ScheduleSeconds)>>

----------------------------------------------------------------------------
(* More claims about the reconnect loop's return, under SpecConn *)

\* C25: whenever a reConnect call returns, by success, by the retry flag
\* being cleared or by an error, the reconnecting flag is false, and the call
\* returns True only if the broker is connected at that moment.
C25_FlagFalseOnReturn ==
    [][Len(rcStack') < Len(rcStack)
          => /\ ~reconnecting'
             /\ reconnectReturn' = "True" => connected']_vars

====
